---- MODULE Spec2Model ----
(***************************************************************************)
(* A model of ics.py's grammar layer (src/ics/grammar/parse.py): the line  *)
(* unfolder, the content-line tokenizer, the recursive container builder   *)
(* and the Container list type, together with the timeline queries that    *)
(* src/tests/timeline.py exercises.                                        *)
(*                                                                         *)
(* Python strings are sequences of one-character strings; Python lists are *)
(* sequences; an optional value is a sequence of at most one element.      *)
(***************************************************************************)
EXTENDS Integers, Sequences, FiniteSets, TLC

VARIABLES
    \* unfold_lines
    physical_lines, unfolded, upc,
    \* ContentLine.__str__ / ContentLine.parse
    token, serialized, reparsed, tpc,
    \* parse / Container.parse
    tokenized_lines, pos, stack, res, outcome, errMsg, result,
    \* Container (the list subclass)
    ca, cb, err, lastOp,
    \* Timeline
    events, op, args, answer

unfoldVars == <<physical_lines, unfolded, upc>>
tokenVars == <<token, serialized, reparsed, tpc>>
parseVars == <<tokenized_lines, pos, stack, res, outcome, errMsg, result>>
containerVars == <<ca, cb, err, lastOp>>
timelineVars == <<events, op, args, answer>>
vars == <<unfoldVars, tokenVars, parseVars, containerVars, timelineVars>>

\* All sequences over S of length at most n.
SeqUpTo(S, n) == UNION {[1..k -> S] : k \in 0..n}

\* ''.join(parts): the concatenation of a sequence of sequences.
RECURSIVE Concat(_)
Concat(parts) == IF parts = <<>> THEN <<>> ELSE Head(parts) \o Concat(Tail(parts))

\* The components that a specification does not exercise stay idle.
UnfoldIdle == physical_lines = <<>> /\ unfolded = <<>> /\ upc = "idle"
TokenIdle == token = <<>> /\ serialized = <<>> /\ reparsed = <<>> /\ tpc = "idle"
ParseIdle ==
    /\ tokenized_lines = <<>> /\ pos = 1 /\ stack = <<>> /\ res = <<>>
    /\ outcome = "idle" /\ errMsg = <<>> /\ result = <<>>
ContainerIdle == ca = <<>> /\ cb = <<>> /\ err = "idle" /\ lastOp = <<"idle">>
TimelineIdle == events = <<>> /\ op = "idle" /\ args = <<>> /\ answer = <<>>

(***************************************************************************)
(* unfold_lines (parse.py 166-181)                                         *)
(***************************************************************************)
MaxLines == 2
MaxLineLen == 2

SP == " "
TAB == "\t"
CR == "\r"
LF == "\n"

\* The characters physical lines are drawn from.
LineChars == {"a", SP, TAB, CR}

\* str.strip() with no argument removes these.
IsWhitespace(ch) == ch \in {SP, TAB, CR, LF}

\* len(line.strip()) == 0
IsBlank(line) == \A i \in 1..Len(line) : IsWhitespace(line[i])

RECURSIVE LStripCR(_)
LStripCR(s) == IF s # <<>> /\ Head(s) = CR THEN LStripCR(Tail(s)) ELSE s

RECURSIVE RStripCR(_)
RStripCR(s) ==
    IF s # <<>> /\ s[Len(s)] = CR THEN RStripCR(SubSeq(s, 1, Len(s) - 1)) ELSE s

\* s.strip('\r'): leading and trailing carriage returns removed.
StripCR(s) == RStripCR(LStripCR(s))

IsContinuationSpaceOnly(line) == line[1] = SP

\* line[0] in (' ', '\t')
IsContinuation(line) == line[1] \in {SP, TAB}

\* One iteration of the for loop: st is [current_line, yielded].
UnfoldStep(st, line) ==
    IF IsBlank(line) THEN st
    ELSE IF st.current_line = <<>>
        THEN [st EXCEPT !.current_line = StripCR(line)]
    ELSE IF IsContinuation(line)
        THEN [st EXCEPT !.current_line = @ \o StripCR(Tail(line))]
    ELSE [current_line |-> StripCR(line),
          yielded |-> Append(st.yielded, st.current_line)]

RECURSIVE UnfoldLoop(_, _)
UnfoldLoop(st, lines) ==
    IF lines = <<>> THEN st ELSE UnfoldLoop(UnfoldStep(st, Head(lines)), Tail(lines))

\* list(unfold_lines(physical_lines))
unfold_lines(lines) ==
    LET st == UnfoldLoop([current_line |-> <<>>, yielded |-> <<>>], lines)
    IN IF st.current_line # <<>> THEN Append(st.yielded, st.current_line)
       ELSE st.yielded

FooBar == <<"F", "O", "O", ":", "B", "A", "R">>
SpBaz == <<" ", "B", "A", "Z">>
FooBarBaz == <<"F", "O", "O", ":", "B", "A", "R", "B", "A", "Z">>

\* Lines with a trailing carriage return, a blank line, a bare carriage return.
FoldedLines == {<<>>, <<CR>>, <<"a">>, <<"a", CR>>, <<TAB, "a">>, <<SP, "a", CR>>}

\* The inputs: every bounded sequence of bounded lines, every three folded lines,
\* and the documented example.
UnfoldInputs ==
    SeqUpTo(SeqUpTo(LineChars, MaxLineLen), MaxLines)
        \cup [1..3 -> FoldedLines] \cup {<<FooBar, SpBaz>>}

InitUnfold ==
    /\ physical_lines \in UnfoldInputs
    /\ unfolded = <<>>
    /\ upc = "start"
    /\ TokenIdle /\ ParseIdle /\ ContainerIdle /\ TimelineIdle

Unfold ==
    /\ upc = "start"
    /\ unfolded' = unfold_lines(physical_lines)
    /\ upc' = "done"
    /\ UNCHANGED <<physical_lines, tokenVars, parseVars, containerVars, timelineVars>>

NextUnfold == Unfold

SpecUnfold == InitUnfold /\ [][NextUnfold]_vars

\* The non-blank physical lines, in input order.
Remaining(lines) == SelectSeq(lines, LAMBDA l : ~IsBlank(l))

\* The remaining lines that start a logical line: the first one, and every one
\* that does not begin with a space or a tab.
StartsOf(R) == {k \in 1..Len(R) : k = 1 \/ R[k][1] \notin {SP, TAB}}

\* The logical line that starts at remaining line k: that line, then every
\* following remaining line up to the next start, each without its first character.
LogicalLineAt(R, k) ==
    LET S == StartsOf(R)
        last == IF \E j \in S : j > k
                THEN (CHOOSE j \in S : j > k /\ \A i \in S : i > k => j <= i) - 1
                ELSE Len(R)
    IN StripCR(R[k]) \o Concat([i \in 1..(last - k) |-> StripCR(Tail(R[k + i]))])

\* The k-th smallest element of a finite set of integers.
RECURSIVE NthOf(_, _)
NthOf(S, n) ==
    LET m == CHOOSE x \in S : \A y \in S : x <= y
    IN IF n = 1 THEN m ELSE NthOf(S \ {m}, n - 1)

\* C3: unfold_lines drops whitespace-only lines, appends every remaining line that
\* begins with a space or tab (and is not the first remaining line) to the current
\* logical line without its first character, and starts a new logical line at every
\* other remaining line, carriage returns stripped; with no continuation line the
\* output is the stripped non-blank lines, and ["FOO:BAR", " BAZ"] gives ["FOO:BARBAZ"].
C3_UnfoldLines ==
    upc = "done" =>
        LET R == Remaining(physical_lines)
            S == StartsOf(R)
        IN /\ Len(unfolded) = Cardinality(S)
           /\ \A j \in 1..Len(unfolded) : unfolded[j] = LogicalLineAt(R, NthOf(S, j))
           /\ (\A i \in 1..Len(physical_lines) :
                   physical_lines[i] = <<>> \/ physical_lines[i][1] \notin {SP, TAB})
               => unfolded = [j \in 1..Len(R) |-> StripCR(R[j])]
           /\ physical_lines = <<FooBar, SpBaz>> => unfolded = <<FooBarBaz>>

\* A blank line sits between a line and its tab continuation, and one logical line results.
C3_Witness ==
    /\ upc = "done"
    /\ Len(physical_lines) = 3
    /\ ~IsBlank(physical_lines[1])
    /\ IsBlank(physical_lines[2])
    /\ ~IsBlank(physical_lines[3]) /\ physical_lines[3][1] = TAB
    /\ Len(unfolded) = 1

(***************************************************************************)
(* ContentLine (parse.py 21-82) and the content-line grammar               *)
(***************************************************************************)
MaxParams == 2
MaxValues == 2
MaxValueLen == 1

DQUOTE == "\""

\* The letters, digits and hyphen the model spells names with.
NameChars == {"a", "A", "b", "B", "p", "P", "q", "Q", "1", "-"}

\* str.upper on one character.
UpperChar(ch) ==
    CASE ch = "a" -> "A" [] ch = "b" -> "B" [] ch = "p" -> "P" [] ch = "q" -> "Q"
      [] OTHER -> ch

\* str.upper
Upper(s) == [i \in 1..Len(s) |-> UpperChar(s[i])]

\* The attrs class: name goes through converter=str.upper; params is an ordered
\* mapping, kept as a sequence of <<name, values>> pairs.
ContentLine(name, params, value) ==
    [type |-> "ContentLine", name |-> Upper(name), params |-> params, value |-> value]

\* sep.join(parts)
RECURSIVE Join(_, _)
Join(sep, parts) ==
    IF parts = <<>> THEN <<>>
    ELSE IF Len(parts) = 1 THEN parts[1]
    ELSE parts[1] \o sep \o Join(sep, Tail(parts))

\* ContentLine.__str__: NAME, then ;PARAM=v1,v2 per parameter, then :VALUE.
\* Parameter values are written as they are, unquoted.
ContentLine__str__(line) ==
    LET params_str ==
            Concat([i \in 1..Len(line.params) |->
                <<";">> \o line.params[i][1] \o <<"=">> \o Join(<<",">>, line.params[i][2])])
    IN line.name \o params_str \o <<":">> \o line.value

\* The grammar's character classes: control characters are in none of them.
IsControl(ch) == ch \in {LF, CR}
IsValueChar(ch) == ~IsControl(ch)
IsQSafeChar(ch) == ~IsControl(ch) /\ ch # DQUOTE
IsSafeChar(ch) == ~IsControl(ch) /\ ch \notin {DQUOTE, ",", ":", ";"}
IsNameChar(ch) == ch \in NameChars

\* Whether a character belongs to a character class of the grammar.
InClass(ch, class) ==
    CASE class = "name" -> IsNameChar(ch)
      [] class = "QSAFE_CHAR" -> IsQSafeChar(ch)
      [] class = "SAFE_CHAR" -> IsSafeChar(ch)
      [] class = "VALUE_CHAR" -> IsValueChar(ch)

\* The length of the longest prefix of s made of characters of the class.
PrefixLen(s, class) ==
    IF \A i \in 1..Len(s) : InClass(s[i], class) THEN Len(s)
    ELSE (CHOOSE i \in 1..Len(s) :
              ~InClass(s[i], class) /\ \A j \in 1..(i - 1) : InClass(s[j], class)) - 1

Drop(s, n) == SubSeq(s, n + 1, Len(s))
Take(s, n) == SubSeq(s, 1, n)

\* A quoted string: q safe-in-quotes characters between two quotes.
QuotedValue(s, q) == [value |-> SubSeq(s, 2, q + 1), rest |-> Drop(s, q + 2)]

\* paramtext: the n leading safe characters.
BareValue(s, n) == [value |-> Take(s, n), rest |-> Drop(s, n)]

IsQuoted(s, q) == s # <<>> /\ Head(s) = DQUOTE /\ Len(s) >= q + 2 /\ s[q + 2] = DQUOTE

\* param_value = quoted_string | paramtext: a quoted string gives the text
\* between the quotes; otherwise the longest run of safe characters.
GrammarParamValue(s) ==
    IF IsQuoted(s, PrefixLen(Drop(s, 1), "QSAFE_CHAR"))
    THEN QuotedValue(s, PrefixLen(Drop(s, 1), "QSAFE_CHAR"))
    ELSE BareValue(s, PrefixLen(s, "SAFE_CHAR"))

ConsValue(v, more) == [values |-> <<v.value>> \o more.values, rest |-> more.rest]

\* param_value {"," param_value}*
RECURSIVE GrammarParamValues(_)
MoreParamValues(v) ==
    IF v.rest # <<>> /\ Head(v.rest) = ","
    THEN ConsValue(v, GrammarParamValues(Tail(v.rest)))
    ELSE [values |-> <<v.value>>, rest |-> v.rest]
GrammarParamValues(s) == MoreParamValues(GrammarParamValue(s))

ParamOf(name, vs) == [ok |-> TRUE, name |-> name, values |-> vs.values, rest |-> vs.rest]

\* param = name "=" values, the name being the n leading name characters.
ParamAfterName(s, n) ==
    IF n = 0 \/ n = Len(s) \/ s[n + 1] # "="
    THEN [ok |-> FALSE, name |-> <<>>, values |-> <<>>, rest |-> s]
    ELSE ParamOf(Take(s, n), GrammarParamValues(Drop(s, n + 1)))

GrammarParam(s) == ParamAfterName(s, PrefixLen(s, "name"))

ConsParam(p, more) ==
    [params |-> <<[name |-> p.name, values |-> p.values]>> \o more.params,
     rest |-> more.rest]

\* {";" param}*: the closure stops, without consuming, at the first ";" that no
\* parameter follows.
RECURSIVE GrammarParams(_)
MoreParams(s, p) ==
    IF s # <<>> /\ Head(s) = ";" /\ p.ok
    THEN ConsParam(p, GrammarParams(p.rest))
    ELSE [params |-> <<>>, rest |-> s]
GrammarParams(s) == MoreParams(s, GrammarParam(Drop(s, 1)))

\* ":" value and the end of the line, after the name and the parameters.
ContentLineAst(name, ps) ==
    IF /\ name # <<>>
       /\ ps.rest # <<>> /\ Head(ps.rest) = ":"
       /\ PrefixLen(Tail(ps.rest), "VALUE_CHAR") = Len(ps.rest) - 1
    THEN [ok |-> TRUE, name |-> name, params |-> ps.params, value |-> Tail(ps.rest)]
    ELSE [ok |-> FALSE, name |-> name, params |-> <<>>, value |-> <<>>]

\* GRAMMAR.parse(line): contentline = name {";" param}* ":" value, then the end.
GrammarParseAt(line, n) == ContentLineAst(Take(line, n), GrammarParams(Drop(line, n)))
GrammarParse(line) == GrammarParseAt(line, PrefixLen(line, "name"))

\* params[param_name] = param_values on an ordered mapping: a known name keeps
\* its place and takes the new values, a new name goes last.
DictSet(d, k, v) ==
    IF \E i \in 1..Len(d) : d[i][1] = k
    THEN [i \in 1..Len(d) |-> IF d[i][1] = k THEN <<k, v>> ELSE d[i]]
    ELSE Append(d, <<k, v>>)

RECURSIVE InterpretParams(_, _)
InterpretParams(asts, d) ==
    IF asts = <<>> THEN d
    ELSE InterpretParams(Tail(asts), DictSet(d, Head(asts).name, Head(asts).values))

\* ContentLine.interpret_ast
interpret_ast(ast) == ContentLine(ast.name, InterpretParams(ast.params, <<>>), ast.value)

\* GRAMMAR.parse raising FailedToken becomes ParseError; otherwise interpret_ast.
InterpretOrFail(ast) ==
    IF ast.ok THEN [status |-> "ok", line |-> <<interpret_ast(ast)>>]
    ELSE [status |-> "ParseError", line |-> <<>>]

\* ContentLine.parse: [status, line]; line holds the ContentLine when status is "ok".
ContentLine_parse(line) ==
    IF \E i \in 1..Len(line) : line[i] \in {LF, CR}
    THEN [status |-> "ValueError", line |-> <<>>]
    ELSE InterpretOrFail(GrammarParse(line))

\* Names as a caller may spell them.
TokenNames == {<<"a">>, <<"B", "-", "1">>}
ParamNames == {<<"P">>, <<"q">>}

\* Parameter values the tokenizer can produce: any characters but quotes and controls.
ParamValueChars == {"a", ",", ":", ";"}
ValueChars == {"a", ":", ",", DQUOTE}

\* Value lists hold at least one value, as the tokenizer builds them.
ParamValueLists ==
    UNION {[1..k -> SeqUpTo(ParamValueChars, MaxValueLen)] : k \in 1..MaxValues}

\* Ordered mappings: sequences of <<name, values>> with distinct names.
ParamDicts ==
    {d \in SeqUpTo(ParamNames \X ParamValueLists, MaxParams) :
        \A i, j \in 1..Len(d) : i # j => d[i][1] # d[j][1]}

InitToken ==
    /\ \E n \in TokenNames, d \in ParamDicts, v \in SeqUpTo(ValueChars, MaxValueLen) :
           token = ContentLine(n, d, v)
    /\ serialized = <<>>
    /\ reparsed = <<>>
    /\ tpc = "start"
    /\ UnfoldIdle /\ ParseIdle /\ ContainerIdle /\ TimelineIdle

\* ContentLine.parse(str(token))
RoundTrip ==
    /\ tpc = "start"
    /\ serialized' = ContentLine__str__(token)
    /\ \E r \in {ContentLine_parse(ContentLine__str__(token))} :
           /\ tpc' = r.status
           /\ reparsed' = r.line
    /\ UNCHANGED <<token, unfoldVars, parseVars, containerVars, timelineVars>>

NextToken == RoundTrip

SpecToken == InitToken /\ [][NextToken]_vars

\* C4: for every valid token T, ContentLine.parse(str(T)) succeeds and equals T:
\* the same upper-cased name, the same parameters in the same order with the
\* same value lists, and the same value.
C4_TokenRoundTrip ==
    tpc # "start" => tpc = "ok" /\ reparsed = <<token>>

(***************************************************************************)
(* parse and Container.parse (parse.py 112-125, 189-198)                   *)
(***************************************************************************)
MaxTokens == 4

\* Container(name, *items), once check_items has passed.
MkContainer(name, items) == [type |-> "Container", name |-> name, items |-> items]

BlockNames == {"VEVENT", "VTODO"}

\* A token as tokenize_line yields it, its name already upper-cased; the builder
\* only compares names and values, which are written here as whole strings.
Tok(name, value) ==
    [type |-> "ContentLine", name |-> name, params |-> <<>>, value |-> value]

\* The tokens the builder is fed.
Tokens ==
    {Tok(n, v) : n \in {"BEGIN", "END"}, v \in BlockNames} \cup {Tok("SUMMARY", "x")}

NoTree == <<>>
NoError == <<>>

InitParse ==
    /\ tokenized_lines \in SeqUpTo(Tokens, MaxTokens)
    /\ pos = 1
    /\ stack = <<>>
    /\ res = <<>>
    /\ outcome = "running"
    /\ errMsg = NoError
    /\ result = NoTree
    /\ UnfoldIdle /\ TokenIdle /\ ContainerIdle /\ TimelineIdle

\* The for loop of the innermost active call has a next line.
HasLine == outcome = "running" /\ pos <= Len(tokenized_lines)
Line == tokenized_lines[pos]
Top == stack[Len(stack)]

\* A finished Container.parse call hands its container to the caller's items
\* (items.append / res.append of the call's value).
ReturnContainer(c) ==
    IF Len(stack) = 1
    THEN /\ res' = Append(res, c)
         /\ stack' = <<>>
    ELSE /\ stack' = [SubSeq(stack, 1, Len(stack) - 1)
                        EXCEPT ![Len(stack) - 1].items = Append(@, c)]
         /\ res' = res

EndMismatchNever(name, line) == FALSE

\* line.value != name
EndMismatch(name, line) == line.value # name

\* parse: a BEGIN line calls Container.parse(line.value, tokenized_lines).
ParseBegin ==
    /\ HasLine /\ stack = <<>> /\ Line.name = "BEGIN"
    /\ stack' = <<[name |-> Line.value, items |-> <<>>]>>
    /\ pos' = pos + 1
    /\ UNCHANGED <<tokenized_lines, res, outcome, errMsg, result>>
    /\ UNCHANGED <<unfoldVars, tokenVars, containerVars, timelineVars>>

\* parse: any other line (an END too) is appended to res.
ParseLine ==
    /\ HasLine /\ stack = <<>> /\ Line.name # "BEGIN"
    /\ res' = Append(res, Line)
    /\ pos' = pos + 1
    /\ UNCHANGED <<tokenized_lines, stack, outcome, errMsg, result>>
    /\ UNCHANGED <<unfoldVars, tokenVars, containerVars, timelineVars>>

\* parse: the iterator is exhausted, res is returned.
ParseReturn ==
    /\ outcome = "running" /\ stack = <<>> /\ pos > Len(tokenized_lines)
    /\ outcome' = "returned"
    /\ result' = <<res>>
    /\ UNCHANGED <<tokenized_lines, pos, stack, res, errMsg>>
    /\ UNCHANGED <<unfoldVars, tokenVars, containerVars, timelineVars>>

\* Container.parse: a BEGIN line recurses on the same iterator.
ContainerBegin ==
    /\ HasLine /\ stack # <<>> /\ Line.name = "BEGIN"
    /\ stack' = Append(stack, [name |-> Line.value, items |-> <<>>])
    /\ pos' = pos + 1
    /\ UNCHANGED <<tokenized_lines, res, outcome, errMsg, result>>
    /\ UNCHANGED <<unfoldVars, tokenVars, containerVars, timelineVars>>

\* Container.parse: the matching END breaks the loop; cls(name, *items) is returned.
ContainerEnd ==
    /\ HasLine /\ stack # <<>> /\ Line.name = "END"
    /\ ~EndMismatch(Top.name, Line)
    /\ ReturnContainer(MkContainer(Top.name, Top.items))
    /\ pos' = pos + 1
    /\ UNCHANGED <<tokenized_lines, outcome, errMsg, result>>
    /\ UNCHANGED <<unfoldVars, tokenVars, containerVars, timelineVars>>

\* Container.parse: another END raises ParseError("Expected END:{}, got END:{}");
\* no caller catches it, so every open call is abandoned.
ContainerEndMismatch ==
    /\ HasLine /\ stack # <<>> /\ Line.name = "END"
    /\ EndMismatch(Top.name, Line)
    /\ outcome' = "ParseError"
    /\ errMsg' = <<Top.name, Line.value>>
    /\ stack' = <<>>
    /\ pos' = pos + 1
    /\ UNCHANGED <<tokenized_lines, res, result>>
    /\ UNCHANGED <<unfoldVars, tokenVars, containerVars, timelineVars>>

\* Container.parse: any other line is appended to items.
ContainerLine ==
    /\ HasLine /\ stack # <<>> /\ Line.name \notin {"BEGIN", "END"}
    /\ stack' = [stack EXCEPT ![Len(stack)].items = Append(@, Line)]
    /\ pos' = pos + 1
    /\ UNCHANGED <<tokenized_lines, res, outcome, errMsg, result>>
    /\ UNCHANGED <<unfoldVars, tokenVars, containerVars, timelineVars>>

\* Container.parse: the iterator is exhausted before an END; the for loop just
\* ends and cls(name, *items) is returned all the same.
ContainerExhausted ==
    /\ outcome = "running" /\ stack # <<>> /\ pos > Len(tokenized_lines)
    /\ ReturnContainer(MkContainer(Top.name, Top.items))
    /\ UNCHANGED <<tokenized_lines, pos, outcome, errMsg, result>>
    /\ UNCHANGED <<unfoldVars, tokenVars, containerVars, timelineVars>>

NextParse ==
    \/ ParseBegin
    \/ ParseLine
    \/ ParseReturn
    \/ ContainerBegin
    \/ ContainerEnd
    \/ ContainerEndMismatch
    \/ ContainerLine
    \/ ContainerExhausted

SpecParse == InitParse /\ [][NextParse]_vars

\* What a reader of the token sequence sees, keeping the names of the open
\* blocks: the first END that differs from the innermost open block, or else
\* whether a block is still open at the end.
RECURSIVE Scan(_, _)
Scan(toks, open) ==
    IF toks = <<>>
    THEN [kind |-> IF open = <<>> THEN "balanced" ELSE "unterminated",
          expected |-> "", actual |-> ""]
    ELSE LET t == Head(toks) IN
         IF t.name = "BEGIN" THEN Scan(Tail(toks), Append(open, t.value))
         ELSE IF t.name = "END" /\ open # <<>>
              THEN IF t.value = open[Len(open)]
                   THEN Scan(Tail(toks), SubSeq(open, 1, Len(open) - 1))
                   ELSE [kind |-> "mismatch", expected |-> open[Len(open)],
                         actual |-> t.value]
              ELSE Scan(Tail(toks), open)

\* The number of BEGIN lines among the first n tokens.
Begins(n) ==
    Cardinality({i \in 1..n : i <= Len(tokenized_lines) /\ tokenized_lines[i].name = "BEGIN"})

\* C1: an END whose value differs from the innermost open block's name makes the
\* parse fail with a ParseError naming the expected and the actual name; every
\* enclosing call is abandoned and no tree is returned.
C1_MismatchedEndFails ==
    LET s == Scan(tokenized_lines, <<>>) IN
    /\ (outcome # "running" /\ s.kind = "mismatch") =>
           /\ outcome = "ParseError"
           /\ errMsg = <<s.expected, s.actual>>
           /\ result = NoTree
           /\ stack = <<>>
    /\ outcome = "ParseError" => s.kind = "mismatch" /\ result = NoTree

\* A mismatched END met two blocks deep has aborted the parse.
C1_Witness ==
    /\ outcome = "ParseError"
    /\ pos = 4
    /\ Begins(2) = 2
    /\ errMsg[1] # errMsg[2]

\* C2: when the input ends while a block is still open the builder fails and
\* returns no tree.
C2_UnterminatedBeginFails ==
    (outcome # "running" /\ Scan(tokenized_lines, <<>>).kind = "unterminated") =>
        outcome = "ParseError" /\ result = NoTree

(***************************************************************************)
(* Container, the list subclass (parse.py 85-163)                          *)
(***************************************************************************)
MaxItems == 2

\* Python values handed to a Container: content lines, containers, and a plain string.
LineX == Tok("SUMMARY", "x")
Alarm == MkContainer("VALARM", <<LineX>>)
PlainString == [type |-> "str", value |-> "x"]
\* A plain list holding a content line.
PlainList == [type |-> "list", items |-> <<LineX>>]

ValidItems == {LineX, Alarm}
PyValues == ValidItems \cup {PlainString}
ContainerNames == {"VEVENT", "VCALENDAR"}

\* ics.utils.check_is_instance(name, value, (ContentLine, Container)) passes.
check_is_instance(value) == value.type \in {"ContentLine", "Container"}

check_items_single_only(items) ==
    IF Len(items) = 1 THEN check_is_instance(items[1]) ELSE TRUE

\* Container.check_items(*items) passes: one item is checked as "item", several
\* as "item <nr>".
check_items(items) ==
    IF Len(items) = 1 THEN check_is_instance(items[1])
    ELSE \A nr \in 1..Len(items) : check_is_instance(items[nr])

\* list.insert(index, value), index counted from 0.
ListInsert(l, index, value) ==
    SubSeq(l, 1, index) \o <<value>> \o SubSeq(l, index + 1, Len(l))

\* Container has no __eq__ of its own: list.__eq__ compares the items pairwise
\* and never looks at the name attribute. ContentLine is an attrs class, equal
\* when of the same class with equal fields.
RECURSIVE ListEq(_, _)
ItemEq(x, y) ==
    IF x.type = "Container" /\ y.type = "Container" THEN ListEq(x.items, y.items)
    ELSE IF x.type = "ContentLine" /\ y.type = "ContentLine" THEN x = y
    ELSE FALSE
ListEq(xs, ys) ==
    /\ Len(xs) = Len(ys)
    /\ \A i \in 1..Len(xs) : ItemEq(xs[i], ys[i])

\* a == b for two Containers
Container__eq__(a, b) == ListEq(a.items, b.items)

BoolStr(b) == IF b THEN "True" ELSE "False"
ArgKind(values) ==
    IF \A i \in 1..Len(values) : values[i] \in ValidItems THEN "valid" ELSE "invalid"

InitContainer ==
    /\ ca = MkContainer("VEVENT", <<>>)
    /\ cb = MkContainer("VEVENT", <<>>)
    /\ err = "none"
    /\ lastOp = <<"__init__", "valid">>
    /\ UnfoldIdle /\ TokenIdle /\ ParseIdle /\ TimelineIdle

OtherUnchanged == UNCHANGED <<unfoldVars, tokenVars, parseVars, timelineVars>>

\* a = Container(name, *items)
NewA ==
    \E name \in ContainerNames, items \in SeqUpTo(PyValues, MaxItems) :
        /\ lastOp' = <<"__init__", ArgKind(items)>>
        /\ IF check_items(items)
           THEN ca' = MkContainer(name, items) /\ err' = "none"
           ELSE ca' = ca /\ err' = "TypeError"
        /\ UNCHANGED cb
        /\ OtherUnchanged

\* b = Container(name, *items)
NewB ==
    \E name \in ContainerNames, items \in SeqUpTo(PyValues, MaxItems) :
        /\ lastOp' = <<"__init__", ArgKind(items)>>
        /\ IF check_items(items)
           THEN cb' = MkContainer(name, items) /\ err' = "none"
           ELSE cb' = cb /\ err' = "TypeError"
        /\ UNCHANGED ca
        /\ OtherUnchanged

\* a[index] = value; an index past the end is list's IndexError.
SetItem ==
    \E index \in 0..Len(ca.items), value \in PyValues :
        /\ lastOp' = <<"__setitem__", ArgKind(<<value>>)>>
        /\ IF ~check_items(<<value>>) THEN ca' = ca /\ err' = "TypeError"
           ELSE IF index >= Len(ca.items) THEN ca' = ca /\ err' = "IndexError"
           ELSE /\ ca' = [ca EXCEPT !.items[index + 1] = value]
                /\ err' = "none"
        /\ UNCHANGED cb
        /\ OtherUnchanged

\* a[i:j] = value: __setitem__ checks value itself as one item, so only a
\* Container passes, and list then puts its items in place of the slice.
SetSlice ==
    \E i \in 0..Len(ca.items), value \in {Alarm, PlainString, PlainList} :
        \E j \in i..Len(ca.items) :
            /\ check_items(<<value>>) =>
                   Len(ca.items) - (j - i) + Len(value.items) <= MaxItems
            /\ lastOp' = <<"__setitem__", IF value \in ValidItems THEN "valid" ELSE "invalid">>
            /\ IF check_items(<<value>>)
               THEN /\ ca' = [ca EXCEPT !.items = SubSeq(@, 1, i) \o value.items
                                                      \o SubSeq(@, j + 1, Len(@))]
                    /\ err' = "none"
               ELSE ca' = ca /\ err' = "TypeError"
            /\ UNCHANGED cb
            /\ OtherUnchanged

\* a.insert(index, value)
Insert ==
    \E index \in 0..Len(ca.items), value \in PyValues :
        /\ Len(ca.items) < MaxItems
        /\ lastOp' = <<"insert", ArgKind(<<value>>)>>
        /\ IF check_items(<<value>>)
           THEN ca' = [ca EXCEPT !.items = ListInsert(@, index, value)] /\ err' = "none"
           ELSE ca' = ca /\ err' = "TypeError"
        /\ UNCHANGED cb
        /\ OtherUnchanged

\* a.append(value)
AppendItem ==
    \E value \in PyValues :
        /\ Len(ca.items) < MaxItems
        /\ lastOp' = <<"append", ArgKind(<<value>>)>>
        /\ IF check_items(<<value>>)
           THEN ca' = [ca EXCEPT !.items = Append(@, value)] /\ err' = "none"
           ELSE ca' = ca /\ err' = "TypeError"
        /\ UNCHANGED cb
        /\ OtherUnchanged

\* a.extend(values)
Extend ==
    \E values \in SeqUpTo(PyValues, MaxItems) :
        /\ Len(ca.items) + Len(values) <= MaxItems
        /\ lastOp' = <<"extend", ArgKind(values)>>
        /\ IF check_items(values)
           THEN ca' = [ca EXCEPT !.items = @ \o values] /\ err' = "none"
           ELSE ca' = ca /\ err' = "TypeError"
        /\ UNCHANGED cb
        /\ OtherUnchanged

\* b = a + values: a new container of a's name, extended by a and then by values.
Add ==
    \E values \in SeqUpTo(PyValues, MaxItems) :
        /\ Len(ca.items) + Len(values) <= MaxItems
        /\ lastOp' = <<"__add__", ArgKind(values)>>
        /\ IF check_items(<<>>) /\ check_items(ca.items) /\ check_items(values)
           THEN cb' = MkContainer(ca.name, (<<>> \o ca.items) \o values) /\ err' = "none"
           ELSE cb' = cb /\ err' = "TypeError"
        /\ UNCHANGED ca
        /\ OtherUnchanged

\* a += values
IAdd ==
    \E values \in SeqUpTo(PyValues, MaxItems) :
        /\ Len(ca.items) + Len(values) <= MaxItems
        /\ lastOp' = <<"__iadd__", ArgKind(values)>>
        /\ IF check_items(values)
           THEN ca' = [ca EXCEPT !.items = @ \o values] /\ err' = "none"
           ELSE ca' = ca /\ err' = "TypeError"
        /\ UNCHANGED cb
        /\ OtherUnchanged

\* a == b
Compare ==
    /\ lastOp' = <<"__eq__", BoolStr(Container__eq__(ca, cb))>>
    /\ err' = "none"
    /\ UNCHANGED <<ca, cb>>
    /\ OtherUnchanged

NextContainer ==
    \/ NewA
    \/ NewB
    \/ SetItem
    \/ SetSlice
    \/ Insert
    \/ AppendItem
    \/ Extend
    \/ Add
    \/ IAdd
    \/ Compare

SpecContainer == InitContainer /\ [][NextContainer]_vars

OnlyItems(c) == \A i \in 1..Len(c.items) : c.items[i].type \in {"ContentLine", "Container"}

\* C5: after any sequence of construction, insert, append, extend, index
\* assignment, + and += calls with arbitrary arguments, every element of a
\* container is a ContentLine or a Container, and a call that would add anything
\* else fails and adds nothing.
C5_ContainerTypeSafety ==
    /\ [](OnlyItems(ca) /\ OnlyItems(cb))
    /\ [][(lastOp'[2] = "invalid") => (err' = "TypeError" /\ ca' = ca /\ cb' = cb)]_vars

\* A plain string was appended to a non-empty container, and the call failed.
C5_Witness ==
    /\ lastOp = <<"append", "invalid">>
    /\ err = "TypeError"
    /\ Len(ca.items) > 0

\* C6: two containers are equal if and only if they have the same name and the
\* same ordered children, compared recursively.
C6_ContainerEquality ==
    lastOp[1] = "__eq__" => (lastOp[2] = BoolStr(ca = cb))

(***************************************************************************)
(* Timeline, as src/tests/timeline.py drives it. Instants are seconds since *)
(* 1970-01-01T00:00; an Event is [id, begin, end], id its place in          *)
(* calendar.events, begin and end optional.                                 *)
(***************************************************************************)
MaxEvents == 2
MaxTick == 3

Hour == 60 * 60
Day == 24 * Hour

\* The days from 1970-01-01 to the civil date y-m-d.
DaysFromCivil(y, m, d) ==
    LET yy == IF m <= 2 THEN y - 1 ELSE y
        era == yy \div 400
        yoe == yy - era * 400
        mp == IF m > 2 THEN m - 3 ELSE m + 9
        doy == (153 * mp + 2) \div 5 + d - 1
        doe == yoe * 365 + yoe \div 4 - yoe \div 100 + doy
    IN era * 146097 + doe - 719468

\* datetime(y, m, d, h)
datetime(y, m, d, h) == DaysFromCivil(y, m, d) * Day + h * Hour

\* datetime.fromtimestamp(ts)
fromtimestamp(ts) == ts

\* Event(begin=..., end=...); an argument left out is None.
Event(id, begin, end) == [id |-> id, begin |-> begin, end |-> end]

\* The instants of the bounded collections: every twelve hours from the epoch.
Times == {k * 12 * Hour : k \in 0..MaxTick}

HasBegin(e) == e.begin # <<>>
Begin(e) == e.begin[1]
\* The end, or the start when the record has no end.
EndOrBegin(e) == IF e.end # <<>> THEN e.end[1] ELSE e.begin[1]

SortedInsertUnstable(sorted, e) ==
    LET n == Cardinality({i \in 1..Len(sorted) : Begin(sorted[i]) < Begin(e)})
    IN SubSeq(sorted, 1, n) \o <<e>> \o SubSeq(sorted, n + 1, Len(sorted))

\* e goes after every record that starts no later than it does.
SortedInsert(sorted, e) ==
    LET n == Cardinality({i \in 1..Len(sorted) : Begin(sorted[i]) <= Begin(e)})
    IN SubSeq(sorted, 1, n) \o <<e>> \o SubSeq(sorted, n + 1, Len(sorted))

RECURSIVE SortByBegin(_, _)
SortByBegin(evs, sorted) ==
    IF evs = <<>> THEN sorted
    ELSE SortByBegin(Tail(evs),
                     IF HasBegin(Head(evs)) THEN SortedInsert(sorted, Head(evs)) ELSE sorted)

\* list(timeline): the records that have a start, by start, ties in collection order.
TimelineIter(evs) == SortByBegin(evs, <<>>)

IsIncludedOrOverlaps(e, begin, end) == Begin(e) <= end /\ EndOrBegin(e) >= begin

IsIncluded(e, begin, end) == Begin(e) >= begin /\ EndOrBegin(e) <= end

IntersectsExclusive(e, begin, end) == Begin(e) < end /\ EndOrBegin(e) > begin

Intersects(e, begin, end) == Begin(e) <= end /\ EndOrBegin(e) >= begin

\* list(timeline.included(begin, end))
included(evs, begin, end) ==
    SelectSeq(TimelineIter(evs), LAMBDA e : IsIncluded(e, begin, end))

\* list(timeline.overlapping(begin, end))
overlapping(evs, begin, end) ==
    SelectSeq(TimelineIter(evs), LAMBDA e : Intersects(e, begin, end))

\* The start of the calendar day that holds instant.
DayStart(instant) == instant - (instant % Day)

on_always_overlapping(evs, instant, strict) ==
    overlapping(evs, DayStart(instant), DayStart(instant) + Day)

\* list(timeline.on(instant, strict)): the window is instant's calendar day;
\* strict keeps the records included in it, otherwise those overlapping it.
on(evs, instant, strict) ==
    IF strict THEN included(evs, DayStart(instant), DayStart(instant) + Day)
    ELSE overlapping(evs, DayStart(instant), DayStart(instant) + Day)

\* The events of test_included, test_on and test_on_strict.
TestEvents ==
    <<Event(1, <<datetime(2015, 10, 10, 0)>>, <<>>),
      Event(2, <<datetime(2010, 10, 10, 0)>>, <<>>),
      Event(3, <<datetime(2020, 10, 10, 0)>>, <<>>),
      Event(4, <<datetime(2015, 1, 10, 0)>>, <<>>),
      Event(5, <<datetime(2014, 1, 10, 0)>>, <<datetime(2018, 1, 10, 0)>>)>>

\* The events of test_overlapping.
TestOverlappingEvents ==
    <<Event(1, <<datetime(2010, 10, 10, 0)>>, <<datetime(2012, 10, 10, 0)>>),
      Event(2, <<datetime(2013, 10, 10, 0)>>, <<datetime(2014, 10, 10, 0)>>),
      Event(3, <<datetime(2016, 10, 10, 0)>>, <<datetime(2017, 10, 10, 0)>>)>>

\* The events of test_iter_is_ordered.
TestOrderedEvents ==
    <<Event(1, <<fromtimestamp(1236)>>, <<>>),
      Event(2, <<fromtimestamp(1235)>>, <<>>),
      Event(3, <<fromtimestamp(1234)>>, <<>>)>>

\* The events of test_iter_does_not_show_undefined_events.
TestUndefinedEvents ==
    <<Event(1, <<>>, <<>>),
      Event(2, <<fromtimestamp(1234)>>, <<>>),
      Event(3, <<fromtimestamp(1235)>>, <<>>)>>

InitTimeline ==
    /\ events = <<>>
    /\ op = "init"
    /\ args = <<>>
    /\ answer = <<>>
    /\ UnfoldIdle /\ TokenIdle /\ ParseIdle /\ ContainerIdle

Rest == UNCHANGED <<unfoldVars, tokenVars, parseVars, containerVars>>

\* The events a calendar may hold: without a start, or with a start and an
\* optional end that is not before it.
NewEvents(id) ==
    {Event(id, <<>>, <<>>)}
        \cup {Event(id, <<b>>, <<>>) : b \in Times}
        \cup UNION {{Event(id, <<b>>, <<e>>) : e \in {t \in Times : t >= b}} : b \in Times}

\* c.events.append(Event(...))
AppendEvent ==
    /\ Len(events) < MaxEvents
    /\ \E e \in NewEvents(Len(events) + 1) : events' = Append(events, e)
    /\ op' = "append"
    /\ args' = <<>>
    /\ answer' = <<>>
    /\ Rest

\* list(c.timeline)
Iterate ==
    /\ op' = "iter"
    /\ args' = <<>>
    /\ answer' = TimelineIter(events)
    /\ UNCHANGED events
    /\ Rest

\* list(c.timeline.included(begin, end)), for a window with begin <= end
QueryIncluded ==
    \E begin \in Times : \E end \in {t \in Times : t >= begin} :
        /\ op' = "included"
        /\ args' = <<begin, end>>
        /\ answer' = included(events, begin, end)
        /\ UNCHANGED events
        /\ Rest

\* list(c.timeline.overlapping(begin, end)), for a window with begin <= end
QueryOverlapping ==
    \E begin \in Times : \E end \in {t \in Times : t >= begin} :
        /\ op' = "overlapping"
        /\ args' = <<begin, end>>
        /\ answer' = overlapping(events, begin, end)
        /\ UNCHANGED events
        /\ Rest

\* list(c.timeline.on(instant, strict))
QueryOn ==
    \E instant \in Times, strict \in BOOLEAN :
        /\ op' = IF strict THEN "on_strict" ELSE "on"
        /\ args' = <<instant>>
        /\ answer' = on(events, instant, strict)
        /\ UNCHANGED events
        /\ Rest

\* test_iter_is_ordered, up to its assertions
test_iter_is_ordered ==
    /\ op = "init"
    /\ events' = TestOrderedEvents
    /\ op' = "test_iter_is_ordered"
    /\ args' = <<>>
    /\ answer' = TimelineIter(TestOrderedEvents)
    /\ Rest

\* test_iter_does_not_show_undefined_events, up to its assertions
test_iter_does_not_show_undefined_events ==
    /\ op = "init"
    /\ events' = TestUndefinedEvents
    /\ op' = "test_iter_does_not_show_undefined_events"
    /\ args' = <<>>
    /\ answer' = TimelineIter(TestUndefinedEvents)
    /\ Rest

\* test_included, up to its assertion
test_included ==
    /\ op = "init"
    /\ events' = TestEvents
    /\ op' = "test_included"
    /\ args' = <<datetime(2013, 10, 10, 0), datetime(2017, 10, 10, 0)>>
    /\ answer' = included(TestEvents, datetime(2013, 10, 10, 0), datetime(2017, 10, 10, 0))
    /\ Rest

\* test_overlapping, up to its assertion
test_overlapping ==
    /\ op = "init"
    /\ events' = TestOverlappingEvents
    /\ op' = "test_overlapping"
    /\ args' = <<datetime(2011, 10, 10, 0), datetime(2015, 10, 10, 0)>>
    /\ answer' = overlapping(TestOverlappingEvents,
                             datetime(2011, 10, 10, 0), datetime(2015, 10, 10, 0))
    /\ Rest

\* test_on, up to its assertion
test_on ==
    /\ op = "init"
    /\ events' = TestEvents
    /\ op' = "test_on"
    /\ args' = <<datetime(2015, 10, 10, 12)>>
    /\ answer' = on(TestEvents, datetime(2015, 10, 10, 12), FALSE)
    /\ Rest

\* test_on_strict, up to its assertion
test_on_strict ==
    /\ op = "init"
    /\ events' = TestEvents
    /\ op' = "test_on_strict"
    /\ args' = <<datetime(2015, 10, 10, 12)>>
    /\ answer' = on(TestEvents, datetime(2015, 10, 10, 12), TRUE)
    /\ Rest

NextTimeline ==
    \/ AppendEvent
    \/ Iterate
    \/ QueryIncluded
    \/ QueryOverlapping
    \/ QueryOn
    \/ test_iter_is_ordered
    \/ test_iter_does_not_show_undefined_events
    \/ test_included
    \/ test_overlapping
    \/ test_on
    \/ test_on_strict

SpecTimeline == InitTimeline /\ [][NextTimeline]_vars

\* The sequence holds each of its records once, and they are exactly those.
ExactlyThose(seq, those) ==
    /\ \A i, j \in 1..Len(seq) : i # j => seq[i] # seq[j]
    /\ {seq[i] : i \in 1..Len(seq)} = those

\* The records of the collection.
Records == {events[k] : k \in 1..Len(events)}

\* Non-decreasing by start.
StartAscending(seq) ==
    \A i, j \in 1..Len(seq) : i < j => Begin(seq[i]) <= Begin(seq[j])

\* Non-decreasing by start, records of equal start in collection order.
StableByStart(seq) ==
    \A i, j \in 1..Len(seq) : i < j =>
        \/ Begin(seq[i]) < Begin(seq[j])
        \/ Begin(seq[i]) = Begin(seq[j]) /\ seq[i].id < seq[j].id

IsIncludedQuery == op \in {"included", "test_included"}
IsOverlappingQuery == op \in {"overlapping", "test_overlapping"}

\* C7: included(begin, end) returns, in start-ascending order, exactly the records
\* that have a start, start at or after begin, and end (or start, without an end)
\* at or before end; test_included's query returns [e[3], e[0]].
C7_Included ==
    /\ IsIncludedQuery =>
        /\ ExactlyThose(answer, {e \in Records :
               HasBegin(e) /\ Begin(e) >= args[1] /\ EndOrBegin(e) <= args[2]})
        /\ StartAscending(answer)
    /\ op = "test_included" => answer = <<TestEvents[4], TestEvents[1]>>

\* A record that overlaps the window without lying inside it was left out.
C7_Witness ==
    /\ op = "included"
    /\ Len(answer) = 1
    /\ \E k \in 1..Len(events) :
           /\ HasBegin(events[k])
           /\ Begin(events[k]) < args[1]
           /\ EndOrBegin(events[k]) > args[1]
           /\ EndOrBegin(events[k]) < args[2]

\* C8: overlapping(begin, end) returns, in start-ascending order, exactly the
\* records that have a start with start <= end and end-or-start >= begin, both
\* inclusive; test_overlapping's query returns the first two intervals.
C8_Overlapping ==
    /\ IsOverlappingQuery =>
        /\ ExactlyThose(answer, {e \in Records :
               HasBegin(e) /\ Begin(e) <= args[2] /\ EndOrBegin(e) >= args[1]})
        /\ StartAscending(answer)
    /\ op = "test_overlapping" =>
           answer = <<TestOverlappingEvents[1], TestOverlappingEvents[2]>>

\* Two records that touch the window at one instant each, at either end, were returned.
C8_Witness ==
    /\ op = "overlapping"
    /\ args[1] < args[2]
    /\ Len(answer) = 2
    /\ EndOrBegin(answer[1]) = args[1]
    /\ Begin(answer[1]) < args[1]
    /\ Begin(answer[2]) = args[2]

====
